---- MODULE Spec2Model ----
(***************************************************************************)
(* Turn-taking state machine of the voice chat component (ChatInterface): *)
(* continuous voice-activity detection, the turn recorder, the pipeline    *)
(* transcribe -> route -> stream -> synthesize -> play, and audio playback.*)
(*                                                                         *)
(* React state (useState) and refs (useRef) are the variables.  A callback *)
(* created by useCallback reads the state of the render that created it:   *)
(* the values a running VAD loop captured when it was set up are kept in   *)
(* the loop's record (capIsRecording, capIsProcessing, ...).               *)
(* A JavaScript string is modelled as a sequence of segments (one segment  *)
(* per character for user text, one per chunk for streamed text).          *)
(***************************************************************************)
EXTENDS Integers, Sequences, FiniteSets, TLC

\* ------------------------------------------------------------------ bounds
MaxTime == 20000
MaxMs == 2
MaxTextTurns == 1
MaxRecorders == 1
MaxReplays == 1
MaxLoops == 1
MaxChunks == 1

\* ------------------------------------------------------- program constants
SPEECH_THRESHOLD == 15
SPEECH_START_DURATION == 200
SPEECH_END_DURATION == 1200
MIN_RECORDING_TIME == 600
MAX_RECORDING_TIME == 15000
MIN_BLOB_SIZE == 500
HISTORY_WINDOW == 6

APOLOGY == <<"Sorry, I encountered an error processing your request. Please try again.">>
TRANSCRIPTION_FAILED == <<"Sorry, I had trouble understanding your audio. Please try the text input below.">>
NOT_HEARD == <<"I couldn't hear you clearly. Please try speaking again or use the text input below.">>

\* ------------------------------------------------------ environment inputs
\* time between two animation frames the model observes
FrameDeltas == {5000}
\* rms values the analyser can report (at or below / above SPEECH_THRESHOLD)
Levels == {10, 20}
\* sizes of the blob a recorder delivers with dataavailable
BlobSizes == {0, 100, 1000}
\* result of a transcription: result.text may be missing (undefined)
Transcripts ==
  { [defined |-> FALSE, text |-> <<>>] } \cup
  { [defined |-> TRUE, text |-> t] :
      t \in { <<" ">>, <<" ", "a", " ">>, <<"w", "h", "y">> } }
\* what the user can say when the routing is looked at
RouterTranscripts ==
  { [defined |-> TRUE, text |-> t] :
      t \in { <<"D","e","b","u","g"," ","p","o","e","m">>,
              <<"p","o","e","m"," ","W","H","Y">>,
              <<"d","e","c","o","d","e">>,
              <<"W","r","i","t","e">>,
              <<"w","h","y">>,
              <<"h","e","l","l","o">> } }
\* the options of the model select
Models == {"auto", "gpt-4o-mini", "gpt-4o", "claude-3-5-sonnet-20241022"}
\* what the user can type in the fallback input
TextInputs == {<<"o", "k">>}
\* chunks a streamed generation can deliver
Chunks == { <<"x">> }
Urls == {"url"}

\* ------------------------------------------------------------ pure helpers
IsSpace(c) == c = " "

RECURSIVE TrimStart(_)
TrimStart(s) ==
  IF s # <<>> /\ IsSpace(Head(s)) THEN TrimStart(Tail(s)) ELSE s

RECURSIVE TrimEnd(_)
TrimEnd(s) ==
  IF s # <<>> /\ IsSpace(s[Len(s)]) THEN TrimEnd(SubSeq(s, 1, Len(s) - 1)) ELSE s

\* String.prototype.trim
Trim(s) == TrimEnd(TrimStart(s))

UpperCase ==
  << "A", "B", "C", "D", "E", "F", "G", "H", "I", "J", "K", "L", "M",
     "N", "O", "P", "Q", "R", "S", "T", "U", "V", "W", "X", "Y", "Z" >>
LowerCase ==
  << "a", "b", "c", "d", "e", "f", "g", "h", "i", "j", "k", "l", "m",
     "n", "o", "p", "q", "r", "s", "t", "u", "v", "w", "x", "y", "z" >>

UpperToLower ==
  [c \in { UpperCase[i] : i \in 1..26 } |->
     LowerCase[CHOOSE i \in 1..26 : UpperCase[i] = c]]

\* String.prototype.toLowerCase
ToLowerCase(s) ==
  [i \in 1..Len(s) |-> IF s[i] \in DOMAIN UpperToLower THEN UpperToLower[s[i]] ELSE s[i]]

\* String.prototype.includes
Includes(s, kw) ==
  \E i \in 1..(Len(s) - Len(kw) + 1) : SubSeq(s, i, i + Len(kw) - 1) = kw

CodeKeywords ==
  { <<"c","o","d","e">>, <<"p","r","o","g","r","a","m","m","i","n","g">>,
    <<"f","u","n","c","t","i","o","n">>, <<"d","e","b","u","g">> }
CreativeKeywords ==
  { <<"w","r","i","t","e">>, <<"s","t","o","r","y">>,
    <<"c","r","e","a","t","i","v","e">>, <<"p","o","e","m">> }
AnalysisKeywords ==
  { <<"a","n","a","l","y","z","e">>, <<"e","x","p","l","a","i","n">>,
    <<"c","o","m","p","a","r","e">>, <<"w","h","y">> }

\* variant: the selection is not consulted
determineOptimalModelIgnoringSelection(prompt, selected) ==
  LET lowerPrompt == ToLowerCase(prompt) IN
  IF \E k \in CodeKeywords : Includes(lowerPrompt, k) THEN "gpt-4o"
  ELSE IF \E k \in CreativeKeywords : Includes(lowerPrompt, k)
       THEN "claude-3-5-sonnet-20241022"
  ELSE IF \E k \in AnalysisKeywords : Includes(lowerPrompt, k) THEN "gpt-4o"
  ELSE "gpt-4o-mini"

\* variant: the creative keywords are tried before the code keywords
determineOptimalModelCreativeFirst(prompt, selected) ==
  IF selected # "auto" THEN selected
  ELSE LET lowerPrompt == ToLowerCase(prompt) IN
       IF \E k \in CreativeKeywords : Includes(lowerPrompt, k)
       THEN "claude-3-5-sonnet-20241022"
       ELSE IF \E k \in CodeKeywords : Includes(lowerPrompt, k) THEN "gpt-4o"
       ELSE IF \E k \in AnalysisKeywords : Includes(lowerPrompt, k) THEN "gpt-4o"
       ELSE "gpt-4o-mini"

determineOptimalModel(prompt, selected) ==
  IF selected # "auto" THEN selected
  ELSE LET lowerPrompt == ToLowerCase(prompt) IN
       IF \E k \in CodeKeywords : Includes(lowerPrompt, k) THEN "gpt-4o"
       ELSE IF \E k \in CreativeKeywords : Includes(lowerPrompt, k)
            THEN "claude-3-5-sonnet-20241022"
       ELSE IF \E k \in AnalysisKeywords : Includes(lowerPrompt, k) THEN "gpt-4o"
       ELSE "gpt-4o-mini"

\* text = result.text?.trim() || ''
TranscriptText(result) ==
  IF ~result.defined THEN <<>> ELSE Trim(result.text)

\* variant: only the empty transcript is turned away
TranscriptRejectedWhenEmpty(text) == text = <<>>

\* !text || text.length < 2
TranscriptRejected(text) == text = <<>> \/ Len(text) < 2

\* audioBlob.size < 500
BlobTooSmall(size) == size < MIN_BLOB_SIZE

RECURSIVE SumSeq(_)
SumSeq(s) == IF s = <<>> THEN 0 ELSE Head(s) + SumSeq(Tail(s))

\* new Blob(audioChunksRef.current).size
BlobSize(chunks) == SumSeq(chunks)

\* ------------------------------------------------------------------- state
VARIABLES
  now,                 \* Date.now(), in ms
  voiceState,          \* useState<VoiceState>
  messages,            \* useState<Message[]>
  showTextFallback,    \* useState(false)
  selectedModel,       \* useState('auto')
  conversationCount,   \* prop, owned by the parent
  completeCalls,       \* number of calls of the prop onConversationComplete
  mediaRecorderRef,    \* 0 (null) or the index of a recorder
  recorders,           \* every MediaRecorder created so far
  audioChunksRef,      \* sizes of the buffered blobs
  speechStartTimeRef,
  continuousStreamRef, \* 0 (null) or the index of the stream held
  streams,             \* every MediaStream acquired so far: "live" or "stopped"
  audioContextRef,     \* 0 (null) or the index of the loop whose context it is
  voiceDetectionRef,
  pendingMedia,        \* getUserMedia calls in flight (closure snapshots)
  loops,               \* every VAD loop set up so far (closure state)
  currentAudioRef,     \* 0 (null) or the index of an audio element
  audios,              \* every Audio element created so far
  procs,               \* every processRecording / handleTextSubmit run so far
  budget               \* recordings and text turns the user makes, replays left,
                       \* the time until which frames are observed, the
                       \* listening sessions requested and the chunks a
                       \* streamed generation delivers at most

vars == << now, voiceState, messages, showTextFallback, selectedModel,
           conversationCount, completeCalls, mediaRecorderRef, recorders,
           audioChunksRef, speechStartTimeRef, continuousStreamRef, streams,
           audioContextRef, voiceDetectionRef, pendingMedia, loops,
           currentAudioRef, audios, procs, budget >>

maxFreeConversations == 2

hasReachedLimit == conversationCount >= maxFreeConversations

\* the component as first rendered with the prop conversationCount = count
Mounted(count) ==
  /\ now = 0
  /\ voiceState = [isRecording |-> FALSE, isProcessing |-> FALSE, isPlaying |-> FALSE,
                   audioLevel |-> 0, isListening |-> FALSE, conversationMode |-> FALSE]
  /\ messages = <<>>
  /\ showTextFallback = FALSE
  /\ selectedModel = "auto"
  /\ conversationCount = count
  /\ completeCalls = 0
  /\ mediaRecorderRef = 0
  /\ recorders = <<>>
  /\ audioChunksRef = <<>>
  /\ speechStartTimeRef = 0
  /\ continuousStreamRef = 0
  /\ streams = <<>>
  /\ audioContextRef = 0
  /\ voiceDetectionRef = FALSE
  /\ pendingMedia = <<>>
  /\ loops = <<>>
  /\ currentAudioRef = 0
  /\ audios = <<>>
  /\ procs = <<>>

Start == Mounted(0)

Init ==
  /\ Start
  /\ budget = [recorders |-> MaxRecorders, texts |-> MaxTextTurns, replays |-> MaxReplays,
              horizon |-> MaxTime, loops |-> MaxLoops,
              chunks |-> MaxChunks]

\* ---------------------------------------------------------- event loop
\* Tasks the browser has already queued (a recorder's stop event, an audio
\* element's loadstart, the rejection of a play() promise) run before the
\* next animation frame; a due timer fires before time passes it.
QueuedTasks ==
  \/ \E r \in 1..Len(recorders) : recorders[r].stopQueued
  \/ \E a \in 1..Len(audios) : audios[a].loadstartQueued \/ audios[a].playPromise = "rejectQueued"

\* when the 15 s timer of recorder r fires
Deadline(r) == recorders[r].startedAt + MAX_RECORDING_TIME

TimerArmed(r) == recorders[r].timeout = "armed"

\* the timer of recorder r is the next one to fire
TimerDue(r) ==
  /\ TimerArmed(r)
  /\ \A q \in 1..Len(recorders) : TimerArmed(q) => Deadline(r) <= Deadline(q)

\* an animation frame d ms from now: no queued task is left and no timer
\* fires before it
TimeMayPass(d) ==
  /\ now + d <= budget.horizon
  /\ ~QueuedTasks
  /\ \A r \in 1..Len(recorders) : TimerArmed(r) => now + d <= Deadline(r)

\* the number of recorders, and so of processRecording runs, is bounded
MayStartTurn == Len(recorders) < budget.recorders

\* so is the number of text submissions
TextTurns == Cardinality({p \in 1..Len(procs) : procs[p].kind = "text"})

\* ------------------------------------------------------------- recorder
\* variant: the recorder's state is not consulted
RecorderActiveAlways(recs, ref) == ref # 0

\* mediaRecorderRef.current && mediaRecorderRef.current.state !== 'inactive'
RecorderActive(recs, ref) == ref # 0 /\ recs[ref].state # "inactive"

\* stopRecording(): MediaRecorder.stop() makes the recorder inactive and queues
\* its dataavailable and stop events
stopRecordingRecorders(recs, ref) ==
  IF RecorderActive(recs, ref)
  THEN [recs EXCEPT ![ref].state = "inactive", ![ref].stopQueued = TRUE]
  ELSE recs

stopRecordingState(vs, recs, ref) ==
  IF RecorderActive(recs, ref)
  THEN [vs EXCEPT !.isRecording = FALSE, !.audioLevel = 0]
  ELSE vs

\* the guard of startAutomaticRecording, read from the closure the loop captured
StartBlocked(lp, stream) ==
  lp.capIsRecording \/ lp.capIsProcessing \/ stream = 0

NewRecorder(l, t, stream) ==
  [state |-> "recording", stopQueued |-> FALSE, timeout |-> "armed",
   startedAt |-> t, loop |-> l, stream |-> stream]

\* ------------------------------------------------------------ VAD loop
\* variant: the loop's own recording flag is not consulted
ShouldStartWhileRecording(speaking, recording, elapsed) ==
  speaking /\ elapsed > SPEECH_START_DURATION

\* !isCurrentlyRecording && (now - speechStartTime) > SPEECH_START_DURATION,
\* in the branch rms > SPEECH_THRESHOLD
ShouldStart(speaking, recording, elapsed) ==
  speaking /\ ~recording /\ elapsed > SPEECH_START_DURATION

\* variant: the first silent frame ends the recording
ShouldStopAtFirstSilence(silenceDuration, recordingDuration) == TRUE

\* variant: the silence is not measured
ShouldStopAfterMinRecording(silenceDuration, recordingDuration) ==
  recordingDuration > MIN_RECORDING_TIME

\* silenceDuration > SPEECH_END_DURATION && recordingDuration > MIN_RECORDING_TIME
ShouldStop(silenceDuration, recordingDuration) ==
  silenceDuration > SPEECH_END_DURATION /\ recordingDuration > MIN_RECORDING_TIME

\* Besides the loop's locals its record keeps three observations the code does
\* not read: startsSinceStop (calls of startAutomaticRecording since the loop
\* last stopped a recording), aboveSince (start of the unbroken run of frames
\* above the threshold seen while idle with no recording started and no turn
\* begun in between, -1 if none), aboveTurns (recordings and turns begun when
\* that run was last extended), silentFor (length in ms of the unbroken run
\* of frames at or below the threshold, -1 if none), loudSince (start of
\* the unbroken run of frames above the threshold, -1 if none), lastLoudTick
\* (time of the loop's last frame above the threshold, -1 if none) and
\* resumed (a frame above the threshold followed one at or below it since the
\* loop last called startAutomaticRecording).
\* One run of monitorVoiceActivity of loop l at time t with energy rms, from
\* the loop records lps, the voice state vs and voiceDetectionRef vdr.
Monitor(l, t, rms, lps, vs, vdr, stream) ==
  LET lp == lps[l]
      speaking == rms > SPEECH_THRESHOLD
      sst == IF speaking /\ ~vdr THEN t ELSE lp.speechStartTime
      lst == IF speaking THEN t ELSE lp.lastSpeechTime
      wantStart == ShouldStart(speaking, lp.isCurrentlyRecording, t - sst)
      starts == wantStart /\ ~StartBlocked(lp, stream)
      silenceDuration == t - lp.lastSpeechTime
      recordingDuration == t - speechStartTimeRef
      wantStop == /\ ~speaking /\ vdr /\ lp.isCurrentlyRecording
                  /\ ShouldStop(silenceDuration, recordingDuration)
      idle == ~vs.isRecording /\ ~vs.isProcessing /\ ~vs.isPlaying
      turns == Len(recorders) + Len(procs)
      vs1 == [vs EXCEPT !.audioLevel = rms]
  IN
  /\ starts => MayStartTurn
  /\ voiceDetectionRef' =
       IF speaking THEN TRUE
       ELSE IF vdr /\ lp.isCurrentlyRecording THEN ~wantStop
       ELSE IF ~lp.isCurrentlyRecording THEN FALSE ELSE vdr
  /\ loops' = [lps EXCEPT ![l] =
       [lp EXCEPT !.speechStartTime = sst,
                  !.lastSpeechTime = lst,
                  !.isCurrentlyRecording =
                     IF wantStart THEN TRUE ELSE IF wantStop THEN FALSE ELSE @,
                  !.running = (stream # 0),
                  !.startsSinceStop = IF wantStart THEN @ + 1
                                      ELSE IF wantStop THEN 0 ELSE @,
                  !.aboveSince = IF ~speaking \/ ~idle \/ starts THEN -1
                                 ELSE IF @ = -1 \/ lp.aboveTurns # turns THEN t
                                 ELSE @,
                  !.aboveTurns = IF ~speaking \/ ~idle \/ starts THEN 0 ELSE turns,
                  !.silentFor = IF speaking THEN -1
                                ELSE IF @ = -1 THEN 0 ELSE @ + (t - now),
                  !.loudSince = IF ~speaking THEN -1
                                ELSE IF @ = -1 THEN t ELSE @,
                  !.lastLoudTick = IF speaking THEN t ELSE @,
                  !.resumed = IF wantStart THEN FALSE
                              ELSE IF speaking /\ lp.silentFor >= 0
                                      /\ lp.isCurrentlyRecording THEN TRUE
                              ELSE @]]
  /\ IF starts
     THEN /\ recorders' = Append(recorders, NewRecorder(l, t, stream))
          /\ mediaRecorderRef' = Len(recorders) + 1
          /\ audioChunksRef' = <<>>
          /\ speechStartTimeRef' = t
          /\ voiceState' = [vs1 EXCEPT !.isRecording = TRUE]
     ELSE /\ recorders' = IF wantStop THEN stopRecordingRecorders(recorders, mediaRecorderRef)
                          ELSE recorders
          /\ voiceState' = IF wantStop THEN stopRecordingState(vs1, recorders, mediaRecorderRef)
                           ELSE vs1
          /\ UNCHANGED << mediaRecorderRef, audioChunksRef, speechStartTimeRef >>

\* an animation frame of loop l: requestAnimationFrame(monitorVoiceActivity)
MonitorVoiceActivity(l, d, rms) ==
  /\ loops[l].running
  /\ TimeMayPass(d)
  /\ now' = now + d
  /\ Monitor(l, now + d, rms, loops, voiceState, voiceDetectionRef, continuousStreamRef)
  /\ UNCHANGED << messages, showTextFallback, selectedModel, conversationCount,
                  completeCalls, continuousStreamRef, streams, audioContextRef,
                  pendingMedia, currentAudioRef, audios, procs, budget >>

\* ------------------------------------------------------------- playback
\* HTMLMediaElement.pause(): a playing or loading element becomes paused; a
\* play() promise still pending is rejected (AbortError) in a queued task
PauseAudio(auds, a) ==
  IF a # 0 /\ auds[a].state \in {"loading", "playing"}
  THEN [auds EXCEPT ![a].state = "paused",
                    ![a].playPromise = IF @ = "pending" THEN "rejectQueued" ELSE @]
  ELSE auds

\* stopAudio()
stopAudioState(vs, ref) == IF ref # 0 THEN [vs EXCEPT !.isPlaying = FALSE] ELSE vs

\* An element that can raise no further event and whose promise nobody still
\* awaits is unreachable from the program: it is garbage, whatever it was.
Garbage(x) ==
  /\ x.state \notin {"loading", "playing"}
  /\ ~x.loadstartQueued
  /\ x.playPromise # "rejectQueued"
  /\ x.resolved \/ x.owner = 0

Collected ==
  [state |-> "collected", loadstartQueued |-> FALSE, playPromise |-> "none",
   owner |-> 0, resolved |-> TRUE]

Collect(auds) == [a \in 1..Len(auds) |-> IF Garbage(auds[a]) THEN Collected ELSE auds[a]]

NewAudio(owner) ==
  [state |-> "loading", loadstartQueued |-> TRUE, playPromise |-> "pending",
   owner |-> owner, resolved |-> FALSE]

\* the synchronous part of playAudio(url): the element in currentAudioRef is
\* paused and dropped, a new element is created, stored and play()ed
playAudioAudios(auds, ref, owner) ==
  Append(Collect(PauseAudio(auds, ref)), NewAudio(owner))

\* ------------------------------------------------- continuous listening
\* MediaRecorder stops by itself when every track of its stream has ended
TracksEnded(recs, stream) ==
  [r \in 1..Len(recs) |->
     IF recs[r].stream = stream /\ recs[r].state = "recording"
     THEN [recs[r] EXCEPT !.state = "inactive", !.stopQueued = TRUE]
     ELSE recs[r]]

\* stopContinuousListening()
stopContinuousListeningState(vs) ==
  [vs EXCEPT !.isListening = FALSE, !.audioLevel = 0, !.conversationMode = FALSE]

Snapshot ==
  [capIsRecording |-> voiceState.isRecording,
   capIsProcessing |-> voiceState.isProcessing,
   capMessages |-> messages,
   capSelectedModel |-> selectedModel]

NewLoop(cap) ==
  [running |-> FALSE, speechStartTime |-> 0, lastSpeechTime |-> 0,
   isCurrentlyRecording |-> FALSE, ctxClosed |-> FALSE,
   startsSinceStop |-> 0, aboveSince |-> -1, aboveTurns |-> 0, silentFor |-> -1,
   loudSince |-> -1, lastLoudTick |-> -1, resumed |-> FALSE,
   capIsRecording |-> cap.capIsRecording, capIsProcessing |-> cap.capIsProcessing,
   capMessages |-> cap.capMessages, capSelectedModel |-> cap.capSelectedModel]

\* toggleConversationMode names stopAudio in its dependency array (line 467)
\* above the const that declares it (line 510).  The model takes the component
\* as rendering, i.e. a build in which that early read yields undefined.

\* click on the main control button (rendered while !hasReachedLimit, disabled
\* while isProcessing) in conversation mode: stopContinuousListening(); stopAudio()
ToggleConversationModeOff ==
  /\ ~hasReachedLimit
  /\ ~voiceState.isProcessing
  /\ voiceState.conversationMode
  /\ streams' = IF continuousStreamRef # 0
                THEN [streams EXCEPT ![continuousStreamRef] = "stopped"] ELSE streams
  /\ recorders' = IF continuousStreamRef # 0
                  THEN TracksEnded(recorders, continuousStreamRef) ELSE recorders
  /\ continuousStreamRef' = 0
  /\ loops' = IF audioContextRef # 0
              THEN [loops EXCEPT ![audioContextRef].ctxClosed = TRUE] ELSE loops
  /\ audioContextRef' = 0
  /\ voiceDetectionRef' = FALSE
  /\ audios' = Collect(PauseAudio(audios, currentAudioRef))
  /\ currentAudioRef' = 0
  /\ voiceState' = stopAudioState(stopContinuousListeningState(voiceState), currentAudioRef)
  /\ UNCHANGED << now, messages, showTextFallback, selectedModel, conversationCount,
                  completeCalls, mediaRecorderRef, audioChunksRef, speechStartTimeRef,
                  pendingMedia, procs, budget >>

\* the same click outside conversation mode: startContinuousListening() up to
\* its await of getUserMedia
ToggleConversationModeOn ==
  /\ ~hasReachedLimit
  /\ ~voiceState.isProcessing
  /\ ~voiceState.conversationMode
  /\ Len(loops) + Len(pendingMedia) < budget.loops
  /\ pendingMedia' = Append(pendingMedia, Snapshot)
  /\ UNCHANGED << now, voiceState, messages, showTextFallback, selectedModel,
                  conversationCount, completeCalls, mediaRecorderRef, recorders,
                  audioChunksRef, speechStartTimeRef, continuousStreamRef, streams,
                  audioContextRef, voiceDetectionRef, loops, currentAudioRef, audios,
                  procs, budget >>

RemoveAt(s, i) == SubSeq(s, 1, i - 1) \o SubSeq(s, i + 1, Len(s))

\* getUserMedia resolves: the stream is stored, setupContinuousVoiceDetection
\* builds the analyser and runs monitorVoiceActivity once, then
\* toggleConversationMode sets conversationMode
GetUserMediaResolve(i, rms) ==
  /\ i \in 1..Len(pendingMedia)
  /\ streams' = Append(streams, "live")
  /\ continuousStreamRef' = Len(streams) + 1
  /\ audioContextRef' = Len(loops) + 1
  /\ pendingMedia' = RemoveAt(pendingMedia, i)
  /\ Monitor(Len(loops) + 1, now, rms,
             Append(loops, NewLoop(pendingMedia[i])),
             [voiceState EXCEPT !.isListening = TRUE, !.conversationMode = TRUE],
             FALSE, Len(streams) + 1)
  /\ UNCHANGED << now, messages, showTextFallback, selectedModel, conversationCount,
                  completeCalls, currentAudioRef, audios, procs, budget >>

\* getUserMedia rejects: startContinuousListening catches the error and
\* toggleConversationMode goes on to set conversationMode
GetUserMediaReject(i) ==
  /\ i \in 1..Len(pendingMedia)
  /\ pendingMedia' = RemoveAt(pendingMedia, i)
  /\ voiceState' = [voiceState EXCEPT !.conversationMode = TRUE]
  /\ UNCHANGED << now, messages, showTextFallback, selectedModel, conversationCount,
                  completeCalls, mediaRecorderRef, recorders, audioChunksRef,
                  speechStartTimeRef, continuousStreamRef, streams, audioContextRef,
                  voiceDetectionRef, loops, currentAudioRef, audios, procs, budget >>

\* ---------------------------------------------------------- message log
Message(id, type, content, model, streaming) ==
  [id |-> id, type |-> type, content |-> content, model |-> model,
   audioUrl |-> "none", isStreaming |-> streaming]

\* setMessages(prev => prev.map(msg => msg.id === id ? {...msg, content} : msg))
SetContent(msgs, id, content) ==
  [i \in 1..Len(msgs) |-> IF msgs[i].id = id THEN [msgs[i] EXCEPT !.content = content]
                          ELSE msgs[i]]

SetStreaming(msgs, id, flag) ==
  [i \in 1..Len(msgs) |-> IF msgs[i].id = id THEN [msgs[i] EXCEPT !.isStreaming = flag]
                          ELSE msgs[i]]

SetAudioUrl(msgs, id, url) ==
  [i \in 1..Len(msgs) |-> IF msgs[i].id = id THEN [msgs[i] EXCEPT !.audioUrl = url]
                          ELSE msgs[i]]

\* variant: the short-circuit exits post their notice as a user message
FallbackMessageAsUser(t, content) == Message(t, "user", content, "none", FALSE)

\* the message the two short-circuit exits of processRecording append
FallbackMessage(t, content) == Message(t, "assistant", content, "none", FALSE)

\* messages.slice(-6)
LastMessages(msgs) ==
  IF Len(msgs) <= HISTORY_WINDOW THEN msgs
  ELSE SubSeq(msgs, Len(msgs) - HISTORY_WINDOW + 1, Len(msgs))

\* messages.slice(-6).map(...) followed by push({role: 'user', content: text})
ConversationHistory(msgs, text) ==
  Append([i \in 1..Len(LastMessages(msgs)) |->
            [role |-> IF LastMessages(msgs)[i].type = "user" THEN "user" ELSE "assistant",
             content |-> LastMessages(msgs)[i].content]],
         [role |-> "user", content |-> text])

\* the parent's onConversationComplete raises the conversation count
onConversationComplete(count) == count + 1

\* A run of processRecording or handleTextSubmit: its position (pc) and its
\* locals.  aIdx (where its assistant message was appended), heard, received
\* (the chunks in the order the stream delivered them) and the three outcomes
\* record what the services answered; the code does not read them.
NoTranscript == [defined |-> FALSE, text |-> <<>>]

\* a run that has appended its user and assistant message and awaits streamText
Generating(t, kind, text, model, history, aIdx) ==
  [kind |-> kind, pc |-> "generate", text |-> text, assistantId |-> t + 1,
   aIdx |-> aIdx, responseText |-> <<>>, nChunks |-> 0, model |-> model,
   history |-> history, synthRequested |-> FALSE, synthText |-> <<>>,
   audio |-> 0, loop |-> 0, completed |-> FALSE, received |-> <<>>,
   heard |-> NoTranscript, txOutcome |-> "none", genOutcome |-> "pending",
   ttsOutcome |-> "pending"]

Transcribing(l) ==
  [kind |-> "voice", pc |-> "transcribe", text |-> <<>>, assistantId |-> 0,
   aIdx |-> 0, responseText |-> <<>>, nChunks |-> 0, model |-> "none",
   history |-> <<>>, synthRequested |-> FALSE, synthText |-> <<>>,
   audio |-> 0, loop |-> l, completed |-> FALSE, received |-> <<>>,
   heard |-> NoTranscript, txOutcome |-> "pending", genOutcome |-> "pending",
   ttsOutcome |-> "pending"]

\* variant: the assistant message is appended first
TurnMessagesAssistantFirst(msgs, t, text, model) ==
  msgs \o << Message(t + 1, "assistant", <<>>, model, TRUE),
             Message(t, "user", text, "none", FALSE) >>

\* the two messages a turn appends: the user message, then the streaming
\* assistant message
TurnMessages(msgs, t, text, model) ==
  msgs \o << Message(t, "user", text, "none", FALSE),
             Message(t + 1, "assistant", <<>>, model, TRUE) >>

\* Date.now() in a task that runs e ms after the last reading of the clock
MsElapsed(e) == e \in 0..MaxMs /\ (now + e) % 100 <= MaxMs

\* ------------------------------------------------------ processRecording
\* The recorder's queued stop: dataavailable (the blob is buffered when its
\* size is > 0), then onstop runs processRecording up to its first await, then
\* the 'stop' listener clears the 15 s timeout.
RecorderStopEvent(r, size) ==
  LET chunks == IF size > 0 THEN Append(audioChunksRef, size) ELSE audioChunksRef
      empty == chunks = <<>>
      small == BlobTooSmall(BlobSize(chunks))
  IN
  /\ r \in 1..Len(recorders)
  /\ recorders[r].stopQueued
  /\ audioChunksRef' = chunks
  /\ recorders' = [recorders EXCEPT ![r].stopQueued = FALSE,
                                    ![r].timeout = IF @ = "armed" THEN "cleared" ELSE @]
  /\ voiceState' = IF empty THEN voiceState
                   ELSE [voiceState EXCEPT !.isProcessing = ~small]
  /\ procs' = IF empty \/ small THEN procs
              ELSE Append(procs, Transcribing(recorders[r].loop))
  /\ UNCHANGED << now, messages, showTextFallback, selectedModel, conversationCount,
                  completeCalls, mediaRecorderRef, speechStartTimeRef,
                  continuousStreamRef, streams, audioContextRef, voiceDetectionRef,
                  pendingMedia, loops, currentAudioRef, audios, budget >>

\* setTimeout(() => stopRecording(), 15000): the timer fires at its deadline,
\* whether or not an animation frame ran in between
RecordingTimeout(r) ==
  /\ r \in 1..Len(recorders)
  /\ TimerDue(r)
  /\ ~QueuedTasks
  /\ Deadline(r) <= budget.horizon
  /\ now' = IF now < Deadline(r) THEN Deadline(r) ELSE now
  /\ recorders' = [stopRecordingRecorders(recorders, mediaRecorderRef)
                     EXCEPT ![r].timeout = "fired"]
  /\ voiceState' = stopRecordingState(voiceState, recorders, mediaRecorderRef)
  /\ UNCHANGED << messages, showTextFallback, selectedModel, conversationCount,
                  completeCalls, mediaRecorderRef, audioChunksRef, speechStartTimeRef,
                  continuousStreamRef, streams, audioContextRef, voiceDetectionRef,
                  pendingMedia, loops, currentAudioRef, audios, procs, budget >>

\* transcribeAudio resolves
TranscribeResolve(p, result, e) ==
  LET text == TranscriptText(result)
      model == determineOptimalModel(text, loops[procs[p].loop].capSelectedModel)
      history == ConversationHistory(loops[procs[p].loop].capMessages, text)
  IN
  /\ p \in 1..Len(procs)
  /\ procs[p].pc = "transcribe"
  /\ MsElapsed(e)
  /\ now' = now + e
  /\ IF TranscriptRejected(text)
     THEN /\ showTextFallback' = TRUE
          /\ messages' = Append(messages, FallbackMessage(now + e, NOT_HEARD))
          /\ voiceState' = [voiceState EXCEPT !.isProcessing = FALSE]
          /\ procs' = [procs EXCEPT ![p].pc = "done", ![p].heard = result,
                                    ![p].txOutcome = "resolved"]
     ELSE /\ messages' = TurnMessages(messages, now + e, text, model)
          /\ procs' = [procs EXCEPT ![p] =
                         [Generating(now + e, "voice", text, model, history,
                                     Len(messages) + 2)
                            EXCEPT !.loop = procs[p].loop, !.heard = result,
                                   !.txOutcome = "resolved"]]
          /\ UNCHANGED << showTextFallback, voiceState >>
  /\ UNCHANGED << selectedModel, conversationCount, completeCalls,
                  mediaRecorderRef, recorders, audioChunksRef, speechStartTimeRef,
                  continuousStreamRef, streams, audioContextRef, voiceDetectionRef,
                  pendingMedia, loops, currentAudioRef, audios, budget >>

\* transcribeAudio (or audioBlob.arrayBuffer) rejects
TranscribeReject(p, e) ==
  /\ p \in 1..Len(procs)
  /\ procs[p].pc = "transcribe"
  /\ MsElapsed(e)
  /\ now' = now + e
  /\ showTextFallback' = TRUE
  /\ messages' = Append(messages, FallbackMessage(now + e, TRANSCRIPTION_FAILED))
  /\ voiceState' = [voiceState EXCEPT !.isProcessing = FALSE]
  /\ procs' = [procs EXCEPT ![p].pc = "done", ![p].txOutcome = "error"]
  /\ UNCHANGED << selectedModel, conversationCount, completeCalls,
                  mediaRecorderRef, recorders, audioChunksRef, speechStartTimeRef,
                  continuousStreamRef, streams, audioContextRef, voiceDetectionRef,
                  pendingMedia, loops, currentAudioRef, audios, budget >>

\* ---------------------------------------------- generation and synthesis
\* the chunk callback of streamText
StreamChunk(p, chunk) ==
  /\ p \in 1..Len(procs)
  /\ procs[p].pc = "generate"
  /\ procs[p].nChunks < budget.chunks
  /\ procs' = [procs EXCEPT ![p].responseText = @ \o chunk, ![p].nChunks = @ + 1,
                            ![p].received = Append(@, chunk)]
  /\ messages' = SetContent(messages, procs[p].assistantId, procs[p].responseText \o chunk)
  /\ UNCHANGED << now, voiceState, showTextFallback, selectedModel, conversationCount,
                  completeCalls, mediaRecorderRef, recorders, audioChunksRef,
                  speechStartTimeRef, continuousStreamRef, streams, audioContextRef,
                  voiceDetectionRef, pendingMedia, loops, currentAudioRef, audios, budget >>

\* after the stream: the streaming flag is cleared and generateSpeech is called
\* with responseText
RequestSpeech(prc, text) ==
  [prc EXCEPT !.pc = "synth", !.responseText = text,
              !.synthRequested = TRUE, !.synthText = text]

\* streamText resolves
StreamResolve(p) ==
  /\ p \in 1..Len(procs)
  /\ procs[p].pc = "generate"
  /\ messages' = SetStreaming(messages, procs[p].assistantId, FALSE)
  /\ procs' = [procs EXCEPT ![p] = [RequestSpeech(@, @.responseText)
                                      EXCEPT !.genOutcome = "resolved"]]
  /\ UNCHANGED << now, voiceState, showTextFallback, selectedModel, conversationCount,
                  completeCalls, mediaRecorderRef, recorders, audioChunksRef,
                  speechStartTimeRef, continuousStreamRef, streams, audioContextRef,
                  voiceDetectionRef, pendingMedia, loops, currentAudioRef, audios, budget >>

\* variant: the flag is left as it is
ClearProcessingSkipped(vs) == vs

\* finally { setVoiceState(prev => ({ ...prev, isProcessing: false })) }
ClearProcessing(vs) == [vs EXCEPT !.isProcessing = FALSE]

\* variant: no run catches the rejection
CatchesGenerationErrorNowhere(kind) == FALSE

\* does the run catch a rejection of streamText itself (inner try/catch)?
CatchesGenerationError(kind) == kind = "voice"

\* streamText rejects: processRecording replaces the response by the apology
\* and goes on; handleTextSubmit has no inner catch, the error reaches its
\* outer catch and only the finally block runs
StreamReject(p) ==
  /\ p \in 1..Len(procs)
  /\ procs[p].pc = "generate"
  /\ IF CatchesGenerationError(procs[p].kind)
     THEN /\ messages' = SetStreaming(SetContent(messages, procs[p].assistantId, APOLOGY),
                                      procs[p].assistantId, FALSE)
          /\ procs' = [procs EXCEPT ![p] = [RequestSpeech(@, APOLOGY)
                                              EXCEPT !.genOutcome = "error"]]
          /\ UNCHANGED voiceState
     ELSE /\ procs' = [procs EXCEPT ![p].pc = "done", ![p].genOutcome = "error"]
          /\ voiceState' = ClearProcessing(voiceState)
          /\ UNCHANGED messages
  /\ UNCHANGED << now, showTextFallback, selectedModel, conversationCount,
                  completeCalls, mediaRecorderRef, recorders, audioChunksRef,
                  speechStartTimeRef, continuousStreamRef, streams, audioContextRef,
                  voiceDetectionRef, pendingMedia, loops, currentAudioRef, audios, budget >>

\* generateSpeech resolves: the url is attached and playAudio(url) is awaited
SpeechResolve(p, url) ==
  /\ p \in 1..Len(procs)
  /\ procs[p].pc = "synth"
  /\ messages' = SetAudioUrl(messages, procs[p].assistantId, url)
  /\ audios' = playAudioAudios(audios, currentAudioRef, p)
  /\ currentAudioRef' = Len(audios) + 1
  /\ procs' = [procs EXCEPT ![p].pc = "play", ![p].audio = Len(audios) + 1,
                            ![p].ttsOutcome = "resolved"]
  /\ UNCHANGED << now, voiceState, showTextFallback, selectedModel, conversationCount,
                  completeCalls, mediaRecorderRef, recorders, audioChunksRef,
                  speechStartTimeRef, continuousStreamRef, streams, audioContextRef,
                  voiceDetectionRef, pendingMedia, loops, budget >>

\* the end of a run after the speech block: handleTextSubmit hides the text
\* fallback; both call onConversationComplete and clear isProcessing
FinishedTextFallback(kind, shown) == IF kind = "text" THEN FALSE ELSE shown

\* generateSpeech rejects: the error is caught and the run finishes
SpeechReject(p) ==
  /\ p \in 1..Len(procs)
  /\ procs[p].pc = "synth"
  /\ procs' = [procs EXCEPT ![p].pc = "done", ![p].completed = TRUE,
                            ![p].ttsOutcome = "error"]
  /\ showTextFallback' = FinishedTextFallback(procs[p].kind, showTextFallback)
  /\ completeCalls' = completeCalls + 1
  /\ conversationCount' = onConversationComplete(conversationCount)
  /\ voiceState' = ClearProcessing(voiceState)
  /\ UNCHANGED << now, messages, selectedModel, mediaRecorderRef, recorders,
                  audioChunksRef, speechStartTimeRef, continuousStreamRef, streams,
                  audioContextRef, voiceDetectionRef, pendingMedia, loops,
                  currentAudioRef, audios, budget >>

\* ------------------------------------------------------ audio callbacks
\* audio.onloadstart
AudioLoadStart(a) ==
  /\ a \in 1..Len(audios)
  /\ audios[a].loadstartQueued
  /\ audios' = Collect([audios EXCEPT ![a].loadstartQueued = FALSE])
  /\ voiceState' = [voiceState EXCEPT !.isPlaying = TRUE]
  /\ UNCHANGED << now, messages, showTextFallback, selectedModel, conversationCount,
                  completeCalls, mediaRecorderRef, recorders, audioChunksRef,
                  speechStartTimeRef, continuousStreamRef, streams, audioContextRef,
                  voiceDetectionRef, pendingMedia, loops, currentAudioRef, procs, budget >>

\* playback starts: the play() promise is fulfilled
AudioPlaying(a) ==
  /\ a \in 1..Len(audios)
  /\ audios[a].state = "loading"
  /\ audios[a].playPromise = "pending"
  /\ ~audios[a].loadstartQueued
  /\ audios' = [audios EXCEPT ![a].state = "playing", ![a].playPromise = "fulfilled"]
  /\ UNCHANGED << now, voiceState, messages, showTextFallback, selectedModel,
                  conversationCount, completeCalls, mediaRecorderRef, recorders,
                  audioChunksRef, speechStartTimeRef, continuousStreamRef, streams,
                  audioContextRef, voiceDetectionRef, pendingMedia, loops,
                  currentAudioRef, procs, budget >>

\* The body shared by onended, onerror and the catch of play(): isPlaying is
\* cleared, currentAudioRef is set to null and resolve() is called; the run
\* awaiting the promise (if any, and on the first resolve only) finishes.
Settle(a, auds) ==
  LET o == audios[a].owner
      continues == ~audios[a].resolved /\ o # 0
  IN
  /\ audios' = Collect([auds EXCEPT ![a].resolved = TRUE])
  /\ currentAudioRef' = 0
  /\ voiceState' = IF continues
                   THEN ClearProcessing([voiceState EXCEPT !.isPlaying = FALSE])
                   ELSE [voiceState EXCEPT !.isPlaying = FALSE]
  /\ procs' = IF continues THEN [procs EXCEPT ![o].pc = "done", ![o].completed = TRUE]
              ELSE procs
  /\ completeCalls' = IF continues THEN completeCalls + 1 ELSE completeCalls
  /\ conversationCount' = IF continues THEN onConversationComplete(conversationCount)
                          ELSE conversationCount
  /\ showTextFallback' = IF continues
                         THEN FinishedTextFallback(procs[o].kind, showTextFallback)
                         ELSE showTextFallback
  /\ UNCHANGED << now, messages, selectedModel, mediaRecorderRef, recorders,
                  audioChunksRef, speechStartTimeRef, continuousStreamRef, streams,
                  audioContextRef, voiceDetectionRef, pendingMedia, loops, budget >>

\* audio.onended
AudioEnded(a) ==
  /\ a \in 1..Len(audios)
  /\ audios[a].state = "playing"
  /\ Settle(a, [audios EXCEPT ![a].state = "ended"])

\* audio.onerror: loading or playback fails; a pending play() promise is
\* rejected as well
AudioError(a) ==
  /\ a \in 1..Len(audios)
  /\ audios[a].state \in {"loading", "playing"}
  /\ ~audios[a].loadstartQueued
  /\ Settle(a, [audios EXCEPT ![a].state = "failed",
                              ![a].playPromise = IF @ = "pending" THEN "rejectQueued" ELSE @])

\* audio.play().catch(...): the promise is rejected because playback was not
\* allowed, or by a pause() or a load error that came first
AudioPlayRejected(a) ==
  /\ a \in 1..Len(audios)
  /\ \/ audios[a].playPromise = "rejectQueued"
     \/ audios[a].state = "loading" /\ audios[a].playPromise = "pending"
  /\ Settle(a, [audios EXCEPT ![a].playPromise = "rejected",
                              ![a].state = IF @ = "loading" THEN "paused" ELSE @])

\* ---------------------------------------------------------- user actions
\* click on Stop Audio (rendered while isPlaying and !hasReachedLimit)
StopAudioClick ==
  /\ voiceState.isPlaying
  /\ ~hasReachedLimit
  /\ audios' = Collect(PauseAudio(audios, currentAudioRef))
  /\ currentAudioRef' = 0
  /\ voiceState' = stopAudioState(voiceState, currentAudioRef)
  /\ UNCHANGED << now, messages, showTextFallback, selectedModel, conversationCount,
                  completeCalls, mediaRecorderRef, recorders, audioChunksRef,
                  speechStartTimeRef, continuousStreamRef, streams, audioContextRef,
                  voiceDetectionRef, pendingMedia, loops, procs, budget >>

\* click on the replay button of message m (disabled while isPlaying):
\* playAudio(message.audioUrl), nobody awaits the promise
ReplayClick(m) ==
  /\ m \in 1..Len(messages)
  /\ messages[m].type = "assistant"
  /\ messages[m].audioUrl # "none"
  /\ ~messages[m].isStreaming
  /\ ~voiceState.isPlaying
  /\ budget.replays > 0
  /\ budget' = [budget EXCEPT !.replays = @ - 1]
  /\ audios' = playAudioAudios(audios, currentAudioRef, 0)
  /\ currentAudioRef' = Len(audios) + 1
  /\ UNCHANGED << now, voiceState, messages, showTextFallback, selectedModel,
                  conversationCount, completeCalls, mediaRecorderRef, recorders,
                  audioChunksRef, speechStartTimeRef, continuousStreamRef, streams,
                  audioContextRef, voiceDetectionRef, pendingMedia, loops, procs >>

\* the guard of handleTextSubmit: if (!text.trim() || hasReachedLimit) return
TextSubmitRejected(text, vs) == Trim(text) = <<>> \/ hasReachedLimit

\* Send / Enter in the text fallback (rendered while showTextFallback and
\* !hasReachedLimit, disabled while isProcessing): handleTextSubmit(text) up
\* to its await of streamText
HandleTextSubmit(text, e) ==
  LET model == determineOptimalModel(text, selectedModel) IN
  /\ MsElapsed(e)
  /\ now' = now + e
  /\ showTextFallback
  /\ ~hasReachedLimit
  /\ ~voiceState.isProcessing
  /\ TextTurns < budget.texts
  /\ ~TextSubmitRejected(text, voiceState)
  /\ voiceState' = [voiceState EXCEPT !.isProcessing = TRUE]
  /\ messages' = TurnMessages(messages, now + e, text, model)
  /\ procs' = Append(procs, Generating(now + e, "text", text, model,
                                       ConversationHistory(messages, text),
                                       Len(messages) + 2))
  /\ UNCHANGED << showTextFallback, selectedModel, conversationCount,
                  completeCalls, mediaRecorderRef, recorders, audioChunksRef,
                  speechStartTimeRef, continuousStreamRef, streams, audioContextRef,
                  voiceDetectionRef, pendingMedia, loops, currentAudioRef, audios, budget >>

\* ------------------------------------------------------- specification
\* runs that can exist: one per recorder and per text turn, with one more recorder
\* the model select (disabled while recording or processing)
SelectModel(m) ==
  /\ ~voiceState.isRecording
  /\ ~voiceState.isProcessing
  /\ m # selectedModel
  /\ selectedModel' = m
  /\ UNCHANGED << now, voiceState, messages, showTextFallback, conversationCount,
                  completeCalls, mediaRecorderRef, recorders, audioChunksRef,
                  speechStartTimeRef, continuousStreamRef, streams, audioContextRef,
                  voiceDetectionRef, pendingMedia, loops, currentAudioRef, audios,
                  procs, budget >>

MaxPipelines == MaxRecorders + 1 + MaxTextTurns

Next ==
  \/ ToggleConversationModeOn
  \/ ToggleConversationModeOff
  \/ \E i \in 1..MaxLoops, rms \in Levels : GetUserMediaResolve(i, rms)
  \/ \E i \in 1..MaxLoops : GetUserMediaReject(i)
  \/ \E l \in 1..MaxLoops, d \in FrameDeltas, rms \in Levels :
       l <= Len(loops) /\ MonitorVoiceActivity(l, d, rms)
  \/ \E r \in 1..(MaxRecorders + 1), size \in BlobSizes : RecorderStopEvent(r, size)
  \/ \E r \in 1..(MaxRecorders + 1) : RecordingTimeout(r)
  \/ \E p \in 1..MaxPipelines, result \in Transcripts, e \in 0..MaxMs :
       TranscribeResolve(p, result, e)
  \/ \E p \in 1..MaxPipelines, e \in 0..MaxMs : TranscribeReject(p, e)
  \/ \E p \in 1..MaxPipelines, chunk \in Chunks : StreamChunk(p, chunk)
  \/ \E p \in 1..MaxPipelines : StreamResolve(p)
  \/ \E p \in 1..MaxPipelines : StreamReject(p)
  \/ \E p \in 1..MaxPipelines, url \in Urls : SpeechResolve(p, url)
  \/ \E p \in 1..MaxPipelines : SpeechReject(p)
  \/ \E a \in 1..(MaxPipelines + MaxReplays) : AudioLoadStart(a)
  \/ \E a \in 1..(MaxPipelines + MaxReplays) : AudioPlaying(a)
  \/ \E a \in 1..(MaxPipelines + MaxReplays) : AudioEnded(a)
  \/ \E a \in 1..(MaxPipelines + MaxReplays) : AudioError(a)
  \/ \E a \in 1..(MaxPipelines + MaxReplays) : AudioPlayRejected(a)
  \/ StopAudioClick
  \/ \E m \in 1..(2 * MaxPipelines) : ReplayClick(m)
  \/ \E text \in TextInputs, e \in 0..MaxMs : HandleTextSubmit(text, e)

Spec == Init /\ [][Next]_vars

\* Two recordings in one listening session, without text turns and replays
InitOverlap ==
  /\ Start
  /\ budget = [recorders |-> MaxRecorders + 1, texts |-> 0, replays |-> 0,
              horizon |-> MaxTime, loops |-> MaxLoops,
              chunks |-> MaxChunks]

NextOverlap ==
  \/ ToggleConversationModeOn
  \/ ToggleConversationModeOff
  \/ \E i \in 1..MaxLoops, rms \in Levels : GetUserMediaResolve(i, rms)
  \/ \E i \in 1..MaxLoops : GetUserMediaReject(i)
  \/ \E l \in 1..MaxLoops, d \in FrameDeltas, rms \in Levels :
       l <= Len(loops) /\ MonitorVoiceActivity(l, d, rms)
  \/ \E r \in 1..(MaxRecorders + 1), size \in BlobSizes : RecorderStopEvent(r, size)
  \/ \E r \in 1..(MaxRecorders + 1) : RecordingTimeout(r)
  \/ \E p \in 1..MaxPipelines, result \in Transcripts, e \in 0..MaxMs :
       TranscribeResolve(p, result, e)
  \/ \E p \in 1..MaxPipelines, e \in 0..MaxMs : TranscribeReject(p, e)
  \/ \E p \in 1..MaxPipelines, chunk \in Chunks : StreamChunk(p, chunk)
  \/ \E p \in 1..MaxPipelines : StreamResolve(p)
  \/ \E p \in 1..MaxPipelines : StreamReject(p)
  \/ \E p \in 1..MaxPipelines, url \in Urls : SpeechResolve(p, url)
  \/ \E p \in 1..MaxPipelines : SpeechReject(p)
  \/ \E a \in 1..MaxPipelines : AudioLoadStart(a)
  \/ \E a \in 1..MaxPipelines : AudioPlaying(a)
  \/ \E a \in 1..MaxPipelines : AudioEnded(a)
  \/ \E a \in 1..MaxPipelines : AudioError(a)
  \/ \E a \in 1..MaxPipelines : AudioPlayRejected(a)
  \/ StopAudioClick

SpecOverlap == InitOverlap /\ [][NextOverlap]_vars

\* What the platform guarantees: queued tasks run, timers fire, service calls
\* and media elements settle.  Nothing is assumed of the user or of the
\* microphone.
Progress ==
  \/ \E i \in 1..MaxLoops, rms \in Levels : GetUserMediaResolve(i, rms)
  \/ \E i \in 1..MaxLoops : GetUserMediaReject(i)
  \/ \E r \in 1..(MaxRecorders + 1), size \in BlobSizes : RecorderStopEvent(r, size)
  \/ \E r \in 1..(MaxRecorders + 1) : RecordingTimeout(r)
  \/ \E p \in 1..MaxPipelines, result \in Transcripts, e \in 0..MaxMs :
       TranscribeResolve(p, result, e)
  \/ \E p \in 1..MaxPipelines, e \in 0..MaxMs : TranscribeReject(p, e)
  \/ \E p \in 1..MaxPipelines : StreamResolve(p)
  \/ \E p \in 1..MaxPipelines : StreamReject(p)
  \/ \E p \in 1..MaxPipelines, url \in Urls : SpeechResolve(p, url)
  \/ \E p \in 1..MaxPipelines : SpeechReject(p)
  \/ \E a \in 1..MaxPipelines : AudioLoadStart(a)
  \/ \E a \in 1..MaxPipelines : AudioPlaying(a)
  \/ \E a \in 1..MaxPipelines : AudioEnded(a)
  \/ \E a \in 1..MaxPipelines : AudioError(a)
  \/ \E a \in 1..MaxPipelines : AudioPlayRejected(a)

FairOverlap == SpecOverlap /\ WF_vars(Progress)

\* Two recordings and a text turn, without replays
InitText ==
  /\ Start
  /\ budget = [recorders |-> MaxRecorders + 1, texts |-> MaxTextTurns, replays |-> 0,
              horizon |-> MaxTime, loops |-> MaxLoops,
              chunks |-> MaxChunks]

NextText ==
  \/ NextOverlap
  \/ \E text \in TextInputs, e \in 0..MaxMs : HandleTextSubmit(text, e)

SpecText == InitText /\ [][NextText]_vars
\* The detection loop and the recorder at frame resolution, while the
\* transcription service has not answered yet
TimingDeltas == {250, 700, 1300}
TimingHorizon == 4000

InitTiming ==
  /\ Start
  /\ budget = [recorders |-> MaxRecorders + 1, texts |-> 0, replays |-> 0,
              horizon |-> TimingHorizon, loops |-> MaxLoops,
              chunks |-> MaxChunks]

NextTiming ==
  \/ ToggleConversationModeOn
  \/ \E i \in 1..MaxLoops, rms \in Levels : GetUserMediaResolve(i, rms)
  \/ \E l \in 1..MaxLoops, d \in TimingDeltas, rms \in Levels :
       l <= Len(loops) /\ MonitorVoiceActivity(l, d, rms)
  \/ \E r \in 1..(MaxRecorders + 1), size \in BlobSizes : RecorderStopEvent(r, size)

SpecTiming == InitTiming /\ [][NextTiming]_vars

\* A listening session long enough for a recording to reach its 15 s ceiling
\* and for the turn after it
CeilingHorizon == 30000

InitCeiling ==
  /\ Start
  /\ budget = [recorders |-> MaxRecorders + 1, texts |-> 0, replays |-> 0,
              horizon |-> CeilingHorizon, loops |-> MaxLoops,
              chunks |-> MaxChunks]

NextCeiling ==
  \/ ToggleConversationModeOn
  \/ \E i \in 1..MaxLoops, rms \in Levels : GetUserMediaResolve(i, rms)
  \/ \E l \in 1..MaxLoops, d \in FrameDeltas, rms \in Levels :
       l <= Len(loops) /\ MonitorVoiceActivity(l, d, rms)
  \/ \E r \in 1..(MaxRecorders + 1), size \in BlobSizes : RecorderStopEvent(r, size)
  \/ \E r \in 1..(MaxRecorders + 1) : RecordingTimeout(r)
  \/ \E p \in 1..MaxPipelines, e \in 0..MaxMs : TranscribeReject(p, e)

SpecCeiling == InitCeiling /\ [][NextCeiling]_vars

\* The main control clicked twice before getUserMedia answers: two listening
\* sessions, each with its own detection loop
InitDoubleClick ==
  /\ Start
  /\ budget = [recorders |-> MaxRecorders + 1, texts |-> 0, replays |-> 0,
              horizon |-> MaxTime, loops |-> MaxLoops + 1,
              chunks |-> MaxChunks]

NextDoubleClick ==
  \/ ToggleConversationModeOn
  \/ \E i \in 1..(MaxLoops + 1), rms \in Levels : GetUserMediaResolve(i, rms)
  \/ \E l \in 1..(MaxLoops + 1), d \in FrameDeltas, rms \in Levels :
       l <= Len(loops) /\ MonitorVoiceActivity(l, d, rms)
  \/ \E r \in 1..(MaxRecorders + 1), size \in BlobSizes : RecorderStopEvent(r, size)
  \/ \E r \in 1..(MaxRecorders + 1) : RecordingTimeout(r)
  \/ \E p \in 1..MaxPipelines, e \in 0..MaxMs : TranscribeReject(p, e)

SpecDoubleClick == InitDoubleClick /\ [][NextDoubleClick]_vars

\* The same, with the click that turns conversation mode off
NextSessions ==
  \/ NextDoubleClick
  \/ ToggleConversationModeOff

SpecSessions == InitDoubleClick /\ [][NextSessions]_vars

\* Streamed generation: two recordings whose turns are generated from
\* streams of up to two chunks
StreamChunks == { <<"x">>, <<"y">> }
Accepted == { r \in Transcripts : ~TranscriptRejected(TranscriptText(r)) }

InitStream ==
  /\ Start
  /\ budget = [recorders |-> MaxRecorders + 1, texts |-> 0, replays |-> 0,
              horizon |-> CeilingHorizon, loops |-> MaxLoops, chunks |-> MaxChunks + 1]

NextStream ==
  \/ ToggleConversationModeOn
  \/ \E i \in 1..MaxLoops, rms \in Levels : GetUserMediaResolve(i, rms)
  \/ \E l \in 1..MaxLoops, d \in FrameDeltas, rms \in Levels :
       l <= Len(loops) /\ MonitorVoiceActivity(l, d, rms)
  \/ \E r \in 1..(MaxRecorders + 1) : RecorderStopEvent(r, 1000)
  \/ \E p \in 1..MaxPipelines, result \in Accepted, e \in 0..MaxMs :
       TranscribeResolve(p, result, e)
  \/ \E p \in 1..MaxPipelines, chunk \in StreamChunks : StreamChunk(p, chunk)
  \/ \E p \in 1..MaxPipelines : StreamResolve(p)
  \/ \E p \in 1..MaxPipelines : StreamReject(p)
  \/ \E p \in 1..MaxPipelines : SpeechReject(p)

SpecStream == InitStream /\ [][NextStream]_vars

\* The component mounted with one free conversation left
InitLimit ==
  /\ Mounted(maxFreeConversations - 1)
  /\ budget = [recorders |-> MaxRecorders + 1, texts |-> 0, replays |-> 0,
              horizon |-> MaxTime, loops |-> MaxLoops,
              chunks |-> MaxChunks]

SpecLimit == InitLimit /\ [][NextOverlap]_vars

\* Routing: the user picks a model, talks, and the transcript is routed
InitRouter ==
  /\ Start
  /\ budget = [recorders |-> MaxRecorders, texts |-> 0, replays |-> 0,
              horizon |-> MaxTime, loops |-> MaxLoops,
              chunks |-> MaxChunks]

NextRouter ==
  \/ \E m \in Models : SelectModel(m)
  \/ ToggleConversationModeOn
  \/ \E i \in 1..MaxLoops, rms \in Levels : GetUserMediaResolve(i, rms)
  \/ \E l \in 1..MaxLoops, d \in FrameDeltas, rms \in Levels :
       l <= Len(loops) /\ MonitorVoiceActivity(l, d, rms)
  \/ \E r \in 1..MaxRecorders, size \in BlobSizes : RecorderStopEvent(r, size)
  \/ \E p \in 1..MaxPipelines, result \in RouterTranscripts, e \in 0..MaxMs :
       TranscribeResolve(p, result, e)

SpecRouter == InitRouter /\ [][NextRouter]_vars

\* ================================================================ claims
\* --- turns in flight
RecordingsInFlight ==
  { r \in 1..Len(recorders) : recorders[r].state = "recording" \/ recorders[r].stopQueued }

PipelinesInFlight == { p \in 1..Len(procs) : procs[p].pc # "done" }

\* C1: at most one Turn is in flight: from the start of a recording until its
\* pipeline has finished there is no second recording and no second pipeline.
C1_SingleTurnInFlight ==
  Cardinality(RecordingsInFlight) + Cardinality(PipelinesInFlight) <= 1

\* the loop's frame callback calls startAutomaticRecording in this step
VadInvokesStart ==
  \E l \in 1..Len(loops) :
    /\ ~loops[l].isCurrentlyRecording
    /\ loops'[l].isCurrentlyRecording

\* C2: startAutomaticRecording called by the detection loop while isRecording
\* or isProcessing is true in the current VoiceState does nothing: no recorder
\* is created, mediaRecorderRef and speechStartTimeRef keep their values and
\* the chunk buffer is not reset.
C2_StartIsNoOpWhileBusy ==
  [][ (VadInvokesStart /\ (voiceState.isRecording \/ voiceState.isProcessing))
        => /\ recorders' = recorders
           /\ mediaRecorderRef' = mediaRecorderRef
           /\ speechStartTimeRef' = speechStartTimeRef
           /\ audioChunksRef' = audioChunksRef ]_vars

\* C3: isRecording is never true together with isProcessing or isPlaying.
C3_RecordingExcludesProcessingAndPlaying ==
  ~(voiceState.isRecording /\ (voiceState.isProcessing \/ voiceState.isPlaying))

\* C4: a text submission made while isProcessing or isRecording is true is
\* rejected: no message is appended, no generation is requested and the
\* VoiceState is unchanged.
C4_TextRejectedWhileBusy ==
  [][ (voiceState.isProcessing \/ voiceState.isRecording)
        => ~(/\ Len(procs') = Len(procs) + 1
             /\ procs'[Len(procs')].kind = "text") ]_vars

\* --- playback and termination
PromisePending(a) ==
  /\ a \in 1..Len(audios)
  /\ audios[a].state # "collected"
  /\ ~audios[a].resolved

\* C5: every promise returned by playAudio is eventually resolved and
\* isPlaying eventually returns to false.
C5_PlaybackSettles ==
  /\ \A a \in 1..MaxPipelines : PromisePending(a) ~> ~PromisePending(a)
  /\ voiceState.isPlaying ~> ~voiceState.isPlaying

Running(p) == p \in 1..Len(procs) /\ procs[p].pc # "done"

\* C6: every pipeline that starts eventually terminates, with isProcessing
\* false when it does.
C6_PipelineTerminates ==
  \A p \in 1..MaxPipelines : Running(p) ~> (~Running(p) /\ ~voiceState.isProcessing)

\* --- generation errors
\* streamText of run p rejects in this step
GenerationFails(p) ==
  /\ p \in 1..Len(procs)
  /\ procs[p].genOutcome = "pending"
  /\ procs'[p].genOutcome = "error"

\* what the run has done by the end of the step in which it handled the error
ApologyGiven(p) ==
  /\ messages'[procs[p].aIdx].type = "assistant"
  /\ messages'[procs[p].aIdx].content = APOLOGY
  /\ ~messages'[procs[p].aIdx].isStreaming
  /\ procs'[p].synthRequested
  /\ procs'[p].synthText = APOLOGY

\* C7: on the voice path, when generation raises an error the assistant
\* message's content becomes exactly the apology (whatever had streamed), its
\* streaming flag is cleared and synthesis is requested with the apology.
C7_VoiceGenerationErrorApology ==
  [][ \A p \in 1..MaxPipelines :
        (GenerationFails(p) /\ procs[p].kind = "voice") => ApologyGiven(p) ]_vars

C7_Witness ==
  \E p \in 1..Len(procs) :
    /\ procs[p].kind = "voice"
    /\ procs[p].genOutcome = "error"
    /\ procs[p].nChunks > 0
    /\ procs[p].synthText = APOLOGY
    /\ messages[procs[p].aIdx].content = APOLOGY

\* C8: the text path handles a generation error as the voice path does: the
\* content becomes the apology, streaming is cleared, the apology is synthesised.
C8_TextGenerationErrorApology ==
  [][ \A p \in 1..MaxPipelines :
        (GenerationFails(p) /\ procs[p].kind = "text") => ApologyGiven(p) ]_vars

\* --- transcription fallbacks
\* the transcript is empty or shorter than 2 characters once trimmed
ShortTranscript(r) == ~r.defined \/ Len(Trim(r.text)) < 2

\* run p ends in this step having appended one assistant message with the given
\* content and nothing else: no user message, no generation, no synthesis, no
\* completion; the text input is offered and isProcessing is false
EndsWithNotice(p, content) ==
  /\ Len(messages') = Len(messages) + 1
  /\ SubSeq(messages', 1, Len(messages)) = messages
  /\ messages'[Len(messages')].type = "assistant"
  /\ messages'[Len(messages')].content = content
  /\ showTextFallback'
  /\ procs'[p].pc = "done"
  /\ procs'[p].genOutcome = "pending"
  /\ ~procs'[p].synthRequested
  /\ ~procs'[p].completed
  /\ conversationCount' = conversationCount
  /\ completeCalls' = completeCalls
  /\ ~voiceState'.isProcessing

\* C9: when transcription returns a transcript that is empty or shorter than 2
\* characters after trimming, exactly one assistant fallback message is
\* appended, no user message, the text fallback is shown, nothing is generated
\* or synthesised, the conversation count is unchanged and isProcessing is false.
C9_ShortTranscriptFallback ==
  [][ \A p \in 1..MaxPipelines :
        ( /\ p \in 1..Len(procs)
          /\ procs[p].txOutcome = "pending"
          /\ procs'[p].txOutcome = "resolved"
          /\ ShortTranscript(procs'[p].heard) ) => EndsWithNotice(p, NOT_HEARD) ]_vars

C9_Witness ==
  \E p \in 1..Len(procs) :
    /\ procs[p].txOutcome = "resolved"
    /\ procs[p].heard.defined
    /\ procs[p].heard.text = <<" ", "a", " ">>
    /\ procs[p].pc = "done"
    /\ showTextFallback
    /\ messages[Len(messages)].content = NOT_HEARD

\* C10: when transcription raises an error, exactly one assistant apology is
\* appended, no user message, the text fallback is shown, nothing is generated
\* or synthesised, the completion callback is not called and isProcessing is false.
C10_TranscriptionErrorFallback ==
  [][ \A p \in 1..MaxPipelines :
        ( /\ p \in 1..Len(procs)
          /\ procs[p].txOutcome = "pending"
          /\ procs'[p].txOutcome = "error" ) => EndsWithNotice(p, TRANSCRIPTION_FAILED) ]_vars

C10_Witness ==
  \E p \in 1..Len(procs) :
    /\ procs[p].txOutcome = "error"
    /\ procs[p].pc = "done"
    /\ showTextFallback
    /\ messages[Len(messages)].content = TRANSCRIPTION_FAILED

\* --- clips that are turned away
\* recorder r's queued stop event is delivered in this step
StopDelivered(r) ==
  /\ r \in 1..Len(recorders)
  /\ recorders[r].stopQueued
  /\ ~recorders'[r].stopQueued

\* the clip processRecording finds in the buffer has no chunk or fewer than
\* 500 bytes
ClipUnusable(chunks) == chunks = <<>> \/ SumSeq(chunks) < 500

\* C11: a finalized clip that is empty or below the minimum size is never
\* passed to transcription: processRecording appends no message, leaves the
\* conversation count alone and ends with isProcessing false.
C11_UnusableClipDropped ==
  [][ \A r \in 1..(MaxRecorders + 1) :
        (StopDelivered(r) /\ ClipUnusable(audioChunksRef'))
          => /\ procs' = procs
             /\ messages' = messages
             /\ conversationCount' = conversationCount
             /\ completeCalls' = completeCalls
             /\ ~voiceState'.isProcessing ]_vars

\* --- synthesis errors
\* generateSpeech of run p rejects in this step
SynthesisFails(p) ==
  /\ p \in 1..Len(procs)
  /\ procs[p].ttsOutcome = "pending"
  /\ procs'[p].ttsOutcome = "error"

\* C12: when speech synthesis raises an error the error is swallowed: the
\* assistant message is left as generation wrote it (its text kept, no longer
\* streaming, no audio reference attached), playAudio is not called for the
\* turn and the pipeline ends with isProcessing false.
C12_SynthesisErrorSwallowed ==
  [][ \A p \in 1..MaxPipelines :
        SynthesisFails(p)
          => /\ messages' = messages
             /\ ~messages'[procs[p].aIdx].isStreaming
             /\ procs'[p].audio = 0
             /\ audios' = audios
             /\ currentAudioRef' = currentAudioRef
             /\ procs'[p].pc = "done"
             /\ ~voiceState'.isProcessing ]_vars

C12_Witness ==
  \E p \in 1..Len(procs) :
    /\ procs[p].ttsOutcome = "error"
    /\ procs[p].pc = "done"
    /\ procs[p].nChunks > 0
    /\ messages[procs[p].aIdx].content = procs[p].responseText
    /\ messages[procs[p].aIdx].audioUrl = "none"
    /\ ~voiceState.isProcessing

\* --- the free limit
\* C13: once conversationCount >= maxFreeConversations no new turn starts by
\* any path: no recording is started by the detection loop, also when the loop
\* was already running when the limit was reached, and no text submission
\* begins a turn.
C13_NoTurnStartsAtLimit ==
  [][ hasReachedLimit
        => /\ Len(recorders') = Len(recorders)
           /\ TextTurns' = TextTurns ]_vars

\* --- completion callback
\* run p appended a user message
AppendedUserMessage(p) == procs[p].aIdx > 0

\* C14: onConversationComplete is called exactly once for each voice or text
\* turn that appended a user message and has finished, and never for a turn
\* that short-circuits (unusable clip, transcription failure, short transcript).
C14_CompleteOncePerTurn ==
  /\ completeCalls = Cardinality({ p \in 1..Len(procs) : procs[p].completed })
  /\ \A p \in 1..Len(procs) :
       /\ (procs[p].pc = "done" /\ AppendedUserMessage(p)) => procs[p].completed
       /\ ~AppendedUserMessage(p) => ~procs[p].completed

\* --- routing
\* run p is routed in this step: its transcript was accepted and the model for
\* the turn is chosen
Routed(p) ==
  /\ p \in 1..Len(procs)
  /\ procs[p].pc = "transcribe"
  /\ procs'[p].pc = "generate"

\* the selection the routing function of run p reads
SelectionSeen(p) == loops[procs[p].loop].capSelectedModel

\* C15: whatever the utterance, when the selected model is not 'auto' the
\* routing returns the selected model unchanged.
C15_SelectionWins ==
  [][ \A p \in 1..MaxPipelines :
        (Routed(p) /\ SelectionSeen(p) # "auto")
          => /\ procs'[p].model = SelectionSeen(p)
             /\ messages'[procs'[p].aIdx].model = SelectionSeen(p) ]_vars

C15_Witness ==
  \E p \in 1..Len(procs) :
    /\ procs[p].pc = "generate"
    /\ procs[p].heard.text = <<"D","e","b","u","g"," ","p","o","e","m">>
    /\ loops[procs[p].loop].capSelectedModel = "gpt-4o-mini"
    /\ procs[p].model = "gpt-4o-mini"

\* the keyword lists as the rule states them
RuleCode == { <<"c","o","d","e">>, <<"p","r","o","g","r","a","m","m","i","n","g">>,
              <<"f","u","n","c","t","i","o","n">>, <<"d","e","b","u","g">> }
RuleCreative == { <<"w","r","i","t","e">>, <<"s","t","o","r","y">>,
                  <<"c","r","e","a","t","i","v","e">>, <<"p","o","e","m">> }
RuleAnalysis == { <<"a","n","a","l","y","z","e">>, <<"e","x","p","l","a","i","n">>,
                  <<"c","o","m","p","a","r","e">>, <<"w","h","y">> }

Mentions(text, words) == \E w \in words : Includes(ToLowerCase(text), w)

RuleModel(text) ==
  CASE Mentions(text, RuleCode) -> "gpt-4o"
    [] ~Mentions(text, RuleCode) /\ Mentions(text, RuleCreative)
         -> "claude-3-5-sonnet-20241022"
    [] ~Mentions(text, RuleCode) /\ ~Mentions(text, RuleCreative)
         /\ Mentions(text, RuleAnalysis) -> "gpt-4o"
    [] OTHER -> "gpt-4o-mini"

\* C16: in auto mode the keywords are matched case-insensitively as
\* substrings, first match winning in the order code, creative, analysis,
\* default: code and creative together give 'gpt-4o', creative and analysis
\* together give the creative model.
C16_AutoRouting ==
  [][ \A p \in 1..MaxPipelines :
        (Routed(p) /\ SelectionSeen(p) = "auto")
          => procs'[p].model = RuleModel(procs'[p].text) ]_vars

C16_Witness ==
  /\ \E p \in 1..Len(procs) :
       /\ procs[p].pc = "generate"
       /\ loops[procs[p].loop].capSelectedModel = "auto"
       /\ procs[p].text = <<"D","e","b","u","g"," ","p","o","e","m">>
       /\ procs[p].model = "gpt-4o"

\* --- detection loop
\* C17: within a listening session the loop calls startAutomaticRecording at
\* most once between one of its stops and the next: while it considers itself
\* recording, further frames above the threshold do not call it again.
C17_StartOncePerUtterance ==
  \A l \in 1..Len(loops) : loops[l].startsSinceStop <= 1

C17_Witness ==
  \E l \in 1..Len(loops) :
    /\ Len(recorders) = 2
    /\ loops[l].isCurrentlyRecording
    /\ loops[l].startsSinceStop = 1
    /\ loops[l].lastSpeechTime > speechStartTimeRef

\* loop l ends its recording in this step (the silence branch calls stopRecording)
VadStops(l) ==
  /\ l \in 1..Len(loops)
  /\ loops[l].isCurrentlyRecording
  /\ ~loops'[l].isCurrentlyRecording

\* C18: whenever the loop calls stopRecording, the active recording started at
\* least 600 ms earlier, so no VAD-triggered stop sends a shorter recording to
\* transcription.
C18_MinTurnDuration ==
  [][ \A l \in 1..MaxLoops :
        (VadStops(l) /\ RecorderActive(recorders, mediaRecorderRef))
          => now' - recorders[mediaRecorderRef].startedAt >= 600 ]_vars

C18_Witness ==
  \E r \in 1..Len(recorders) :
    /\ recorders[r].stopQueued
    /\ recorders[r].timeout = "armed"
    /\ ~loops[recorders[r].loop].isCurrentlyRecording
    /\ now - recorders[r].startedAt = 1300

\* loop l ran a frame above the threshold in this step
SpeakingTick(l) ==
  /\ l \in 1..Len(loops)
  /\ loops'[l].lastSpeechTime # loops[l].lastSpeechTime

\* loop l ran a frame at or below the threshold in this step
SilentTick(l) ==
  /\ l \in 1..Len(loops)
  /\ loops'[l].silentFor # loops[l].silentFor
  /\ loops'[l].silentFor >= 0

Idle ==
  ~voiceState.isRecording /\ ~voiceState.isProcessing /\ ~voiceState.isPlaying

\* listening and idle, loop l has now seen energy above the threshold on every
\* frame for more than 200 ms
SpeechDebounced(l) ==
  /\ SpeakingTick(l)
  /\ voiceState.isListening
  /\ Idle
  /\ loops[l].aboveSince >= 0
  /\ loops[l].aboveTurns = Len(recorders) + Len(procs)
  /\ now' - loops[l].aboveSince > 200

RecordingBegins ==
  /\ Len(recorders') = Len(recorders) + 1
  /\ recorders'[Len(recorders')].state = "recording"
  /\ voiceState'.isRecording

\* the recording of loop l has lasted at least 600 ms and the loop has now
\* seen energy at or below the threshold for more than 1200 ms
SilenceDebounced(l) ==
  /\ SilentTick(l)
  /\ RecorderActive(recorders, mediaRecorderRef)
  /\ recorders[mediaRecorderRef].loop = l
  /\ now' - recorders[mediaRecorderRef].startedAt >= 600
  /\ loops'[l].silentFor > 1200

\* stopRecording has acted on the active recorder: its stop event, whose
\* handler is processRecording, is queued
RecordingStopped ==
  /\ recorders'[mediaRecorderRef].state = "inactive"
  /\ recorders'[mediaRecorderRef].stopQueued
  /\ ~voiceState'.isRecording

\* C19: while listening and idle, energy above the threshold on every frame
\* for more than 200 ms begins a recording; once a recording has lasted at
\* least 600 ms, energy below the threshold for more than 1200 ms stops it and
\* hands it to processRecording.
C19_SpeechStartsSilenceStops ==
  [][ \A l \in 1..MaxLoops :
        /\ SpeechDebounced(l) => RecordingBegins
        /\ SilenceDebounced(l) => RecordingStopped ]_vars

\* the 15 s timer of recorder r runs its callback in this step
TimerFires(r) ==
  /\ r \in 1..Len(recorders)
  /\ recorders[r].timeout = "armed"
  /\ recorders'[r].timeout = "fired"

\* C20: every recording is stopped no later than 15 s after it started,
\* whatever the loop hears: while a recorder records its timer is armed and
\* the clock does not pass its deadline, and the timer's callback stops the
\* recorder through stopRecording, which queues the stop event handled by
\* processRecording.
C20_RecordingCeiling ==
  [][ \A r \in 1..(MaxRecorders + 1) :
        /\ (r <= Len(recorders) /\ recorders[r].state = "recording")
             => (TimerArmed(r) /\ now' <= Deadline(r))
        /\ (TimerFires(r) /\ recorders[r].state = "recording")
             => /\ now' <= Deadline(r)
                /\ recorders'[r].state = "inactive"
                /\ recorders'[r].stopQueued
                /\ ~voiceState'.isRecording ]_vars

\* --- stopping and tearing down
\* stopRecording is called in this step (by a loop's silence branch or by a
\* recorder's timer) although the recorder in mediaRecorderRef was stopped before
StopRecordingAgain ==
  /\ mediaRecorderRef # 0
  /\ recorders[mediaRecorderRef].state = "inactive"
  /\ \/ \E l \in 1..Len(loops) : VadStops(l)
     \/ \E r \in 1..Len(recorders) : TimerFires(r)

\* C21: a call of stopRecording after the recording has been stopped is a
\* no-op: the recorder is not stopped again, no second stop event and so no
\* second processRecording is queued for the clip, and the voice state keeps
\* its flags (the level is the one the frame itself measured, not the 0 that
\* stopRecording writes).
C21_StopIsIdempotent ==
  [][ StopRecordingAgain =>
        /\ recorders'[mediaRecorderRef].state = "inactive"
        /\ recorders'[mediaRecorderRef].stopQueued = recorders[mediaRecorderRef].stopQueued
        /\ mediaRecorderRef' = mediaRecorderRef
        /\ procs' = procs
        /\ [voiceState' EXCEPT !.audioLevel = 0] = [voiceState EXCEPT !.audioLevel = 0]
        /\ (\E l \in 1..Len(loops) : VadStops(l)) => voiceState'.audioLevel > 0 ]_vars

\* the loop has called stopRecording on a recorder its timer had stopped, and
\* the one stop event of that recorder has been handled
C21_Witness ==
  \E r \in 1..Len(recorders) :
    /\ recorders[r].timeout = "fired"
    /\ recorders[r].state = "inactive"
    /\ ~recorders[r].stopQueued
    /\ mediaRecorderRef = r
    /\ loops[recorders[r].loop].running
    /\ ~loops[recorders[r].loop].isCurrentlyRecording

\* audio element a is audible or about to be
Sounding(auds, a) == auds[a].state \in {"loading", "playing"}

\* conversation mode is turned off in this step
ConversationModeTurnedOff ==
  voiceState.conversationMode /\ ~voiceState'.conversationMode

\* C22: when conversation mode is turned off while audio is playing, the
\* playback is stopped and isPlaying is false in the next state.
C22_ModeOffStopsPlayback ==
  [][ (ConversationModeTurnedOff /\ \E a \in 1..Len(audios) : Sounding(audios, a))
        => /\ \A a \in 1..Len(audios') : ~Sounding(audios', a)
           /\ ~voiceState'.isPlaying ]_vars

\* stopContinuousListening has left nothing of the listening sessions behind
TornDown ==
  /\ \A s \in 1..Len(streams') : streams'[s] = "stopped"
  /\ \A l \in 1..Len(loops') : loops'[l].ctxClosed
  /\ continuousStreamRef' = 0
  /\ audioContextRef' = 0
  /\ ~voiceState'.isListening

\* a frame of loop l runs in this step while no stream is held
TickAfterStop(l) ==
  /\ l \in 1..Len(loops)
  /\ continuousStreamRef = 0
  /\ loops[l].running
  /\ loops'[l] # loops[l]

\* C23: after stopContinuousListening the microphone tracks are stopped, the
\* audio context is closed, both refs are null and isListening is false; a
\* frame that was already scheduled is the loop's last one, and no recording
\* is started while no stream is held.
C23_ListeningTornDown ==
  [][ /\ ConversationModeTurnedOff => TornDown
      /\ \A l \in 1..(MaxLoops + 1) : TickAfterStop(l) => ~loops'[l].running
      /\ Len(recorders') > Len(recorders) => continuousStreamRef # 0 ]_vars

\* --- conversation mode
\* a getUserMedia call is answered with an error in this step
AcquisitionFails ==
  /\ Len(pendingMedia') < Len(pendingMedia)
  /\ Len(streams') = Len(streams)

\* C24: when microphone acquisition fails the state remains idle: isListening
\* and conversationMode are false afterwards, no stream is held and no
\* detection loop runs.
C24_AcquisitionFailureStaysIdle ==
  [][ (AcquisitionFails /\ ~voiceState.conversationMode /\ Len(loops) = 0)
        => /\ ~voiceState'.isListening
           /\ ~voiceState'.conversationMode
           /\ continuousStreamRef' = 0
           /\ Len(loops') = 0 ]_vars

\* C25: whenever conversationMode is on, isListening is true and a microphone
\* stream is held; no outcome of a turn clears isListening or conversationMode.
C25_ModeOnMeansListening ==
  voiceState.conversationMode =>
    (voiceState.isListening /\ continuousStreamRef # 0
       /\ streams[continuousStreamRef] = "live")

\* --- playback
SoundingElements(auds) == {a \in 1..Len(auds) : Sounding(auds, a)}

\* a step sets currentAudioRef to null although the element it held goes on
\* sounding: the callback of another element cleared the reference
ReferenceLost ==
  /\ currentAudioRef # 0
  /\ currentAudioRef' = 0
  /\ Sounding(audios', currentAudioRef)

\* C26: at most one audio element is playing at any time, and the callbacks
\* of an element that playAudio discarded never clear the reference to the
\* element that replaced it.
C26_SinglePlayback ==
  [][ /\ Cardinality(SoundingElements(audios')) <= 1
      /\ ~ReferenceLost ]_vars

\* --- message log
\* C27: the messages of the log have pairwise distinct ids, so an update made
\* by id (a streamed chunk, the end of streaming, the audio reference) changes
\* exactly one message.
C27_DistinctIds ==
  \A i, j \in 1..Len(messages) : messages[i].id = messages[j].id => i = j

\* the log after the step keeps every message of the log before it, in place
LogExtended ==
  /\ Len(messages') >= Len(messages)
  /\ \A i \in 1..Len(messages) :
       /\ messages'[i].id = messages[i].id
       /\ messages'[i].type = messages[i].type

\* in the log msgs, the assistant message of every turn of prs directly
\* follows the user message the same turn appended
TurnsInOrder(msgs, prs) ==
  \A p \in 1..Len(prs) :
    prs[p].aIdx # 0 =>
      /\ prs[p].aIdx \in 2..Len(msgs)
      /\ msgs[prs[p].aIdx].type = "assistant"
      /\ msgs[prs[p].aIdx].id = prs[p].assistantId
      /\ msgs[prs[p].aIdx - 1].type = "user"
      /\ msgs[prs[p].aIdx - 1].id = prs[p].assistantId - 1

\* C28: the message log is append-only and ordered: no step removes or
\* reorders a message or shortens the log, and within a turn the user message
\* is appended before that turn's assistant message.
C28_LogAppendOnly ==
  [][ LogExtended /\ TurnsInOrder(messages', procs') ]_vars

\* a text turn has appended its two messages behind those of a voice turn
C28_Witness ==
  /\ Len(messages) >= 4
  /\ \E p, q \in 1..Len(procs) :
       /\ procs[p].kind = "voice" /\ procs[p].aIdx = 2
       /\ procs[q].kind = "text" /\ procs[q].aIdx = Len(messages)

\* run p issues its generation request in this step
RequestsGeneration(p) ==
  /\ p \in 1..Len(procs')
  /\ procs'[p].pc = "generate"
  /\ p \in 1..Len(procs) => procs[p].pc # "generate"

\* C29: the messages passed to streamText are the last 6 messages that were
\* in the log just before this turn's user message was appended, as
\* role/content pairs in log order, followed by one user entry holding the
\* current utterance; for every voice turn of a session and for text turns.
C29_HistoryFromLog ==
  [][ \A p \in 1..(MaxPipelines + 1) :
        RequestsGeneration(p) =>
          procs'[p].history = ConversationHistory(messages, procs'[p].text) ]_vars

\* --- start debounce
\* loop l calls startAutomaticRecording in this step
VadStarts(l) ==
  /\ l \in 1..Len(loops)
  /\ ~loops[l].isCurrentlyRecording
  /\ loops'[l].isCurrentlyRecording

\* C30: the loop starts a recording only when the energy it measured has been
\* above the threshold on every frame for at least 200 ms: a frame at or
\* below the threshold resets the debounce, so a shorter burst starts nothing.
C30_StartDebounce ==
  [][ \A l \in 1..(MaxLoops + 1) :
        VadStarts(l) =>
          /\ loops'[l].loudSince >= 0
          /\ now' - loops'[l].loudSince >= 200 ]_vars

\* --- end debounce
\* C31: during a recording the loop stops the recording only on a frame at or
\* below the threshold, and only when at least 1200 ms have passed since its
\* last frame above the threshold: a frame above the threshold during a pause
\* restarts the measurement, so a shorter pause does not end the turn.
C31_EndDebounce ==
  [][ \A l \in 1..(MaxLoops + 1) :
        (VadStops(l) /\ RecorderActive(recorders, mediaRecorderRef))
          => /\ SilentTick(l)
             /\ loops[l].lastLoudTick >= 0
             /\ now' - loops[l].lastLoudTick >= 1200 ]_vars

\* a recording went on through a pause of less than 1200 ms and was stopped by
\* the loop 1300 ms after the speech that followed the pause
C31_Witness ==
  \E r \in 1..Len(recorders) :
    /\ recorders[r].stopQueued
    /\ recorders[r].timeout = "armed"
    /\ ~loops[recorders[r].loop].isCurrentlyRecording
    /\ loops[recorders[r].loop].resumed
    /\ loops[recorders[r].loop].silentFor = 0
    /\ now - loops[recorders[r].loop].lastLoudTick = 1300

\* --- re-arming
\* a turn was made and nothing of it is left: no recorder records or has a
\* stop event queued and every pipeline has finished
TurnsOver ==
  /\ Len(recorders) > 0
  /\ RecordingsInFlight = {}
  /\ PipelinesInFlight = {}

\* C32: after every turn, whether the loop's silence branch or the 15 s timer
\* ended its recording and whatever the pipeline answered, the loop is armed
\* again: once the pipeline has finished, energy above the threshold on every
\* frame for more than 200 ms begins a new recording.
C32_VadReArms ==
  [][ \A l \in 1..MaxLoops :
        (TurnsOver /\ SpeechDebounced(l)) => RecordingBegins ]_vars

\* --- the 15 s timer
\* C33: the 15 s timer of a recording is cancelled when the recording stops for
\* another reason (a timer stays armed only while its recorder records or its
\* stop event is still queued), and the callback of a timer armed for one
\* recording never stops another recording.
C33_TimerCancelled ==
  [][ \A r \in 1..(MaxRecorders + 1) :
        /\ (r <= Len(recorders') /\ recorders'[r].timeout = "armed")
             => (recorders'[r].state = "recording" \/ recorders'[r].stopQueued)
        /\ TimerFires(r)
             => \A q \in 1..Len(recorders) :
                  q # r => recorders'[q].state = recorders[q].state ]_vars

\* --- streaming
RECURSIVE Concat(_)
Concat(chunks) == IF chunks = <<>> THEN <<>> ELSE Head(chunks) \o Concat(Tail(chunks))

\* the stream of run p delivers a chunk in this step
ChunkArrives(p) ==
  /\ p \in 1..Len(procs)
  /\ Len(procs'[p].received) = Len(procs[p].received) + 1

\* the stream of run p completes without error in this step
StreamCompletes(p) ==
  /\ p \in 1..Len(procs)
  /\ procs[p].genOutcome = "pending"
  /\ procs'[p].genOutcome = "resolved"

\* C34: streamed chunks are appended in arrival order: after each chunk the
\* content of the turn's assistant message is the concatenation of the chunks
\* received so far, and when the stream completes without error the text sent
\* to speech synthesis is the content the message then has.
C34_ChunksInArrivalOrder ==
  [][ \A p \in 1..MaxPipelines :
        /\ ChunkArrives(p)
             => messages'[procs[p].aIdx].content = Concat(procs'[p].received)
        /\ StreamCompletes(p)
             => /\ procs'[p].synthRequested
                /\ procs'[p].synthText = messages'[procs[p].aIdx].content ]_vars

\* --- the chunk buffer
\* C35: once a recording has been stopped and its stop event has handed the
\* clip to processRecording, the chunk buffer is empty: it is cleared at the
\* hand-off, not only when the next recording starts.
C35_BufferClearedAtHandOff ==
  [][ \A r \in 1..(MaxRecorders + 1) :
        StopDelivered(r) => audioChunksRef' = <<>> ]_vars

\* --- the streaming flag
\* C36: whenever isProcessing is false no message of the log has isStreaming
\* true, and the assistant message of every turn that has ended is no longer
\* streaming, on the voice and on the text path and whatever the services
\* answered.
C36_NoStreamingWhenIdle ==
  /\ ~voiceState.isProcessing => \A m \in 1..Len(messages) : ~messages[m].isStreaming
  /\ \A p \in 1..Len(procs) :
       (procs[p].pc = "done" /\ procs[p].aIdx # 0) => ~messages[procs[p].aIdx].isStreaming

\* --- the playing flag
\* C37: in every reachable state isPlaying true implies that currentAudioRef
\* holds an audio element that is loading or playing, whatever the order of
\* the loadstart, ended, error and play-rejection callbacks and of the calls
\* of stopAudio, so that the end of playback or stopAudio can clear the flag.
C37_PlayingMeansElementHeld ==
  voiceState.isPlaying =>
    (currentAudioRef # 0 /\ Sounding(audios, currentAudioRef))

\* --- one listening session
LiveStreams == { s \in 1..Len(streams) : streams[s] = "live" }

RunningLoops == { l \in 1..Len(loops) : loops[l].running }

\* C38: at most one microphone stream is held and at most one detection loop
\* runs at any time, whatever the order of the clicks on the main control and
\* of the answers of getUserMedia, and every stream that was acquired and not
\* stopped is the one continuousStreamRef refers to.
C38_SingleListeningSession ==
  /\ Cardinality(LiveStreams) <= 1
  /\ Cardinality(RunningLoops) <= 1
  /\ \A s \in LiveStreams : continuousStreamRef = s

\* --- the loop's recording flag
\* a MediaRecorder started by loop l is recording
LoopRecords(l) ==
  \E r \in 1..Len(recorders) : recorders[r].loop = l /\ recorders[r].state = "recording"

\* C39: between two frames the loop's own isCurrentlyRecording is true exactly
\* when a MediaRecorder started by that loop is recording, also after
\* startAutomaticRecording returned early and after the 15 s timer stopped the
\* recording.
C39_LoopFlagAgreesWithRecorder ==
  \A l \in 1..Len(loops) : loops[l].isCurrentlyRecording <=> LoopRecords(l)

\* --- turning the mode off during a recording
\* nothing is in progress any more: no recorder records or has its stop event
\* queued, no pipeline runs, no getUserMedia call is pending and no audio
\* element sounds or has an event queued
Quiescent ==
  /\ RecordingsInFlight = {}
  /\ PipelinesInFlight = {}
  /\ pendingMedia = <<>>
  /\ ~QueuedTasks
  /\ \A a \in 1..Len(audios) : ~Sounding(audios, a)

\* C40: when conversation mode was turned off while a recording was active,
\* isRecording becomes false: once the mode is off and the recorder and every
\* running pipeline have finished, isRecording, isProcessing and isPlaying are
\* all false.
C40_FlagsClearAfterModeOff ==
  (~voiceState.conversationMode /\ Quiescent)
    => (~voiceState.isRecording /\ ~voiceState.isProcessing /\ ~voiceState.isPlaying)
====
